---- MODULE Spec2Model ----
(***************************************************************************)
(* HyperLogLog64 (src/unnamed/part_000, src/hyperloglog64.go) and the      *)
(* sparse/dense HyperLogLog++ estimator (src/hllpp.go) as state machines.  *)
(*                                                                         *)
(* A machine word is the set of its bit positions that are 1 (bit 0 is the *)
(* least significant), so that 64-bit hashes and 32-bit encoded hashes     *)
(* keep their full width.  A register array made by make([]uint8, m) is    *)
(* its length together with the map of its non-zero entries.               *)
(* The floating-point value of an estimate is not modelled; Count and      *)
(* Estimate are modelled by their effect on the state and by the table     *)
(* rows they index.                                                        *)
(***************************************************************************)
EXTENDS Integers, Sequences, FiniteSets, TLC

VARIABLES h64, added, ret, pp, ref, addedDense, lastAdd

vars == <<h64, added, ret, pp, ref, addedDense, lastAdd>>

(* ------------------------------ bounds --------------------------------- *)

\* how many hashes of HashPool the HyperLogLog64 operations draw from
NumHashes64 == 3

\* how many hashes of HashPool the HyperLogLog++ operations draw from
NumHashesPP == 4

\* Add is taken on a sparse estimator while it holds fewer encoded hashes than this
\* (merge can store an encoded hash more than once, so the list has no bound of its own)
MaxSparseLen == 5

(* ------------------------- words and bit primitives -------------------- *)

Max(S) == CHOOSE a \in S : \A b \in S : b <= a

RECURSIVE Pow2(_)
Pow2(n) == IF n = 0 THEN 1 ELSE 2 * Pow2(n - 1)

\* the value of a word whose set bits all lie below bit 31
RECURSIVE ToNat(_)
ToNat(x) == IF x = {} THEN 0 ELSE LET b == Max(x) IN Pow2(b) + ToNat(x \ {b})

\* the word of a number below 2^31
Bits(n) == {b \in 0..30 : (n \div Pow2(b)) % 2 = 1}

\* x << n on a 64-bit and on a 32-bit word: bits shifted past the top are lost
shl64(x, n) == {b + n : b \in {c \in x : c + n < 64}}
shl32(x, n) == {b + n : b \in {c \in x : c + n < 32}}

\* uint32(x) of a 64-bit word
uint32(x) == {b \in x : b < 32}

\* a < b on unsigned words: the highest bit in which they differ is b's
Less(a, b) == LET d == (a \ b) \cup (b \ a) IN d # {} /\ Max(d) \in b

\* bits lo (inclusive) to hi (exclusive) of x, right-aligned
eb64(x, hi, lo) == {b - lo : b \in {c \in x : c >= lo /\ c < hi}}
eb32(x, hi, lo) == {b - lo : b \in {c \in x : c >= lo /\ c < hi}}

\* count of leading zero bits; the width of the word for 0
clz64(x) == IF x = {} THEN 64 ELSE 63 - Max(x)
clz32(x) == IF x = {} THEN 32 ELSE 31 - Max(x)

(* ------------------------------ inputs --------------------------------- *)

HashPool ==
  <<  {63, 40},      \* register 8 at p = 4, extra precision bits non-zero
      {63},          \* register 8 at p = 4, everything below bit 63 zero
      {39},          \* register 0, lowest bit of the 25-bit sparse index
      {},            \* the zero hash
      {62, 5},       \* extra precision bits zero, low 39 bits non-zero
      {63, 62, 41, 0} >>

Hashes64 == {HashPool[n] : n \in 1..NumHashes64}
HashesPP == {HashPool[n] : n \in 1..NumHashesPP}

\* precisions handed to the constructors (a uint8 each)
Precisions64 == {3, 4, 26, 27}
PrecisionsPP == {3, 4, 8, 18, 19}

H64 == {"a", "b"}

(* --------------------------- register arrays --------------------------- *)

NoEntries == [i \in {} |-> 0]

\* make([]uint8, m)
MakeReg(m) == [len |-> m, nz |-> NoEntries]

\* a nil slice
NilReg == [len |-> 0, nz |-> NoEntries]

RegAt(reg, i) == IF i \in DOMAIN reg.nz THEN reg.nz[i] ELSE 0

RegSet(reg, i, v) ==
  [reg EXCEPT !.nz = [j \in (DOMAIN reg.nz) \cup {i} |-> IF j = i THEN v ELSE reg.nz[j]]]

countZeros(reg) == reg.len - Cardinality(DOMAIN reg.nz)

(* ------------------------------ tables --------------------------------- *)

threshold ==
  << 10, 20, 40, 80, 220, 400, 900, 1800, 3100,
     6500, 11500, 20000, 50000, 120000, 350000 >>

minPrecision == 4

\* number of rows of rawEstimateData and of biasData: one per precision 4..26
rawEstimateDataLen == 23

(* ---------------------------- HyperLogLog64 ---------------------------- *)

NoHLL64 == [made |-> FALSE, p |-> 0, m |-> 0, reg |-> NilReg]

maxPrecision == rawEstimateDataLen + minPrecision - 1

\* mutant: the largest precision is rejected too
New64RejectsLargest(precision) == precision >= maxPrecision % 256 \/ precision < 4

\* New64's precision check (part_000)
New64Rejects(precision) == precision > maxPrecision % 256 \/ precision < 4

\* New64's precision check with the literal bound (hyperloglog64.go)
New64RejectsLiteral(precision) == precision > 26 \/ precision < 4

New64Object(precision) ==
  [made |-> TRUE, p |-> precision, m |-> Pow2(precision), reg |-> MakeReg(Pow2(precision))]

\* the register index of hash x at precision p
index64(p, x) == ToNat(eb64(x, 64, 64 - p))

\* mutant: the rank without the guard bit 1 << (p-1)
zeroBits64Unguarded(p, x) == clz64(shl64(x, p)) + 1

\* the rank of hash x at precision p
zeroBits64(p, x) == clz64(shl64(x, p) \cup {p - 1}) + 1

\* mutant: the register is set without comparing it with the rank
AddUint64RegOverwrite(reg, p, x) == RegSet(reg, index64(p, x), zeroBits64(p, x))

\* the register array after AddUint64(x)
AddUint64Reg(reg, p, x) ==
  LET i == index64(p, x)
      zeroBits == zeroBits64(p, x)
  IN  IF zeroBits > RegAt(reg, i) THEN RegSet(reg, i, zeroBits) ELSE reg

\* mutant: the comparison is strict
SeenUint64Strict(h, x) == zeroBits64(h.p, x) < RegAt(h.reg, index64(h.p, x))

SeenUint64Result(h, x) == zeroBits64(h.p, x) <= RegAt(h.reg, index64(h.p, x))

\* mutant: every non-zero register of the argument overwrites the receiver's
MergeRegOverwrite(hreg, oreg) ==
  [hreg EXCEPT !.nz =
     [i \in (DOMAIN hreg.nz) \cup (DOMAIN oreg.nz) |->
        IF RegAt(oreg, i) > 0 THEN RegAt(oreg, i) ELSE RegAt(hreg, i)]]

\* the receiver's register array after the loop of Merge
MergeReg(hreg, oreg) ==
  [hreg EXCEPT !.nz =
     [i \in (DOMAIN hreg.nz) \cup (DOMAIN oreg.nz) |->
        IF RegAt(oreg, i) > RegAt(hreg, i) THEN RegAt(oreg, i) ELSE RegAt(hreg, i)]]

\* whether Count indexes a table outside its rows
Count64Panics(h) ==
  \/ h.p - 4 >= rawEstimateDataLen
  \/ countZeros(h.reg) # 0 /\ h.p - 4 >= Len(threshold)

Live == ret # "panic"

New64(h, precision) ==
  /\ Live
  /\ ~h64[h].made
  /\ ~pp.made
  /\ IF New64Rejects(precision)
       THEN /\ ret' = "error"
            /\ h64' = h64
       ELSE /\ ret' = "nil"
            /\ h64' = [h64 EXCEPT ![h] = New64Object(precision)]
  /\ UNCHANGED <<added, pp, ref, addedDense, lastAdd>>

Clear64(h) ==
  /\ Live
  /\ h64[h].made
  /\ h64' = [h64 EXCEPT ![h].reg = MakeReg(h64[h].m)]
  /\ added' = [added EXCEPT ![h] = {}]
  /\ ret' = "void"
  /\ UNCHANGED <<pp, ref, addedDense, lastAdd>>

AddUint64(h, x) ==
  /\ Live
  /\ h64[h].made
  /\ h64' = [h64 EXCEPT ![h].reg = AddUint64Reg(h64[h].reg, h64[h].p, x)]
  /\ added' = [added EXCEPT ![h] = @ \cup {x}]
  /\ ret' = "void"
  /\ UNCHANGED <<pp, ref, addedDense, lastAdd>>

SeenUint64(h, x) ==
  /\ Live
  /\ h64[h].made
  /\ ret' = IF SeenUint64Result(h64[h], x) THEN "true" ELSE "false"
  /\ UNCHANGED <<h64, added, pp, ref, addedDense, lastAdd>>

\* mutant: the precisions are not compared
MergeUnchecked(h, other) ==
  /\ Live
  /\ h64[h].made
  /\ h64[other].made
  /\ ret' = "nil"
  /\ h64' = [h64 EXCEPT ![h].reg = MergeReg(h64[h].reg, h64[other].reg)]
  /\ UNCHANGED <<added, pp, ref, addedDense, lastAdd>>

Merge(h, other) ==
  /\ Live
  /\ h64[h].made
  /\ h64[other].made
  /\ IF h64[h].p # h64[other].p
       THEN /\ ret' = "error"
            /\ h64' = h64
       ELSE /\ ret' = "nil"
            /\ h64' = [h64 EXCEPT ![h].reg = MergeReg(h64[h].reg, h64[other].reg)]
  /\ UNCHANGED <<added, pp, ref, addedDense, lastAdd>>

Count(h) ==
  /\ Live
  /\ h64[h].made
  /\ ret' = IF Count64Panics(h64[h]) THEN "panic" ELSE "count"
  /\ UNCHANGED <<h64, added, pp, ref, addedDense, lastAdd>>

(* ---------------------------- HyperLogLog++ ----------------------------- *)

pPrime == 25

mPrime == Pow2(pPrime - 1)

NoHLLPP ==
  [made |-> FALSE, p |-> 0, m |-> 0, sparse |-> FALSE,
   tmp_set |-> {}, sparse_list |-> <<>>, reg |-> NilReg]

NoAdd ==
  [called |-> FALSE, x |-> {}, sparse |-> FALSE, cnt |-> 0,
   merged |-> FALSE, listLen |-> 0, promoted |-> FALSE]

encodeHash(p, x) ==
  LET idx == uint32(shl64(eb64(x, 64, 64 - pPrime), 7))
  IN  IF eb64(x, 64 - p, 64 - pPrime) = {}
        THEN LET zeros == clz64(shl64(eb64(x, 64 - pPrime, 0), pPrime)) + 1
             IN  idx \cup Bits((zeros * 2) % 256) \cup {0}
        ELSE idx \cup {6}

getIndex(p, k) == eb32(k, p + 7, 7)

\* <<register index, rank>> of the encoded hash k
decodeHash(p, k) ==
  LET r == IF 0 \in k
             THEN (ToNat(eb32(k, 7, 1)) + pPrime - p) % 256
             ELSE (clz32(shl32(k, pPrime - p)) + 1) % 256
  IN  <<ToNat(getIndex(p, k)), r>>

\* sort.Sort(keys): the elements of the set in increasing order
RECURSIVE sortedKeys(_)
sortedKeys(S) ==
  IF S = {} THEN <<>>
  ELSE LET k == CHOOSE a \in S : \A b \in S : ~Less(b, a)
       IN  <<k>> \o sortedKeys(S \ {k})

mask == Bits(mPrime - 1)
key_less(a, b) == Less(a \cap mask, b \cap mask)
key_equal(a, b) == (a \cap mask) = (b \cap mask)

\* the slice with k put at (0-based) position i
insert(s, i, k) == SubSeq(s, 1, i) \o <<k>> \o SubSeq(s, i + 1, Len(s))

\* the inner loop of merge: the first position from i on whose entry is not key_less than k
RECURSIVE skipLess(_, _, _)
skipLess(list, i, k) ==
  IF i < Len(list) /\ key_less(list[i + 1], k) THEN skipLess(list, i + 1, k) ELSE i

\* the outer loop of merge over the sorted keys, i the (0-based) cursor into the list
RECURSIVE mergeLoop(_, _, _)
mergeLoop(list, i0, keys) ==
  IF keys = <<>> THEN list
  ELSE LET k == Head(keys)
           i == skipLess(list, i0, k)
       IN  IF i >= Len(list)
             THEN mergeLoop(Append(list, k), i, Tail(keys))
             ELSE LET item == list[i + 1]
                  IN  IF Less(item, k)
                        THEN IF key_equal(k, item)
                               THEN mergeLoop([list EXCEPT ![i + 1] = k], i + 1, Tail(keys))
                               ELSE mergeLoop(insert(list, i + 1, k), i + 1, Tail(keys))
                        ELSE IF key_less(k, item)
                               THEN mergeLoop(insert(list, i, k), i + 1, Tail(keys))
                               ELSE mergeLoop(list, i + 1, Tail(keys))

\* the estimator after merge()
merge(h) ==
  [h EXCEPT !.sparse_list = mergeLoop(h.sparse_list, 0, sortedKeys(h.tmp_set)),
            !.tmp_set = {}]

RECURSIVE toNormalReg(_, _, _)
toNormalReg(reg, p, list) ==
  IF list = <<>> THEN reg
  ELSE LET d == decodeHash(p, Head(list))
       IN  toNormalReg(IF RegAt(reg, d[1]) < d[2] THEN RegSet(reg, d[1], d[2]) ELSE reg,
                       p, Tail(list))

\* the estimator after toNormal()
toNormal(h) ==
  [h EXCEPT !.reg = toNormalReg(MakeReg(h.m), h.p, h.sparse_list),
            !.sparse = FALSE,
            !.tmp_set = {},
            !.sparse_list = <<>>]

\* the register array after the dense branch of Add
AddReg(reg, p, x) ==
  LET i == index64(p, x)
      zeroBits == zeroBits64(p, x)
  IN  IF zeroBits > RegAt(reg, i) THEN RegSet(reg, i, zeroBits) ELSE reg

NewHyperLogLogPPRejects(precision) == precision > 18 \/ precision < 4

NewHyperLogLogPPObject(precision) ==
  [made |-> TRUE, p |-> precision, m |-> Pow2(precision), sparse |-> TRUE,
   tmp_set |-> {}, sparse_list |-> <<>>, reg |-> NilReg]

NewHyperLogLogPP(precision) ==
  /\ Live
  /\ ~pp.made
  /\ \A h \in H64 : ~h64[h].made
  /\ IF NewHyperLogLogPPRejects(precision)
       THEN /\ ret' = "error"
            /\ UNCHANGED <<pp, ref>>
       ELSE /\ ret' = "nil"
            /\ pp' = NewHyperLogLogPPObject(precision)
            /\ ref' = MakeReg(Pow2(precision))
  /\ UNCHANGED <<h64, added, addedDense, lastAdd>>

Clear ==
  /\ Live
  /\ pp.made
  /\ pp' = [pp EXCEPT !.sparse = TRUE, !.tmp_set = {}, !.sparse_list = <<>>, !.reg = NilReg]
  /\ ref' = MakeReg(pp.m)
  /\ addedDense' = {}
  /\ lastAdd' = NoAdd
  /\ ret' = "void"
  /\ UNCHANGED <<h64, added>>

\* mutant: merge is taken when count * 100 > m, promotion when the list holds more than m
AddSparseOtherLimits(h, x) ==
  LET ins  == [h EXCEPT !.tmp_set = @ \cup {encodeHash(h.p, x)}]
      cnt  == Cardinality(ins.tmp_set)
      mrg  == cnt * 100 > h.m
      mgd  == IF mrg THEN merge(ins) ELSE ins
      prom == mrg /\ Len(mgd.sparse_list) > h.m
  IN  [est  |-> IF prom THEN toNormal(mgd) ELSE mgd,
       path |-> [called |-> TRUE, x |-> x, sparse |-> TRUE, cnt |-> cnt, merged |-> mrg,
                 listLen |-> Len(mgd.sparse_list), promoted |-> prom]]

\* the sparse branch of Add: the estimator after it, and the path it took
AddSparse(h, x) ==
  LET ins  == [h EXCEPT !.tmp_set = @ \cup {encodeHash(h.p, x)}]
      cnt  == Cardinality(ins.tmp_set)
      mrg  == cnt * 72 > h.m
      mgd  == IF mrg THEN merge(ins) ELSE ins
      prom == mrg /\ Len(mgd.sparse_list) * 6 > h.m
  IN  [est  |-> IF prom THEN toNormal(mgd) ELSE mgd,
       path |-> [called |-> TRUE, x |-> x, sparse |-> TRUE, cnt |-> cnt, merged |-> mrg,
                 listLen |-> Len(mgd.sparse_list), promoted |-> prom]]

Add(x) ==
  /\ Live
  /\ pp.made
  /\ pp.sparse => Len(pp.sparse_list) + Cardinality(pp.tmp_set) < MaxSparseLen
  /\ IF pp.sparse
       THEN /\ pp' = AddSparse(pp, x).est
            /\ lastAdd' = AddSparse(pp, x).path
            /\ addedDense' = {}
       ELSE /\ pp' = [pp EXCEPT !.reg = AddReg(pp.reg, pp.p, x)]
            /\ lastAdd' = [NoAdd EXCEPT !.called = TRUE, !.x = x]
            /\ addedDense' = addedDense \cup {x}
  /\ ref' = AddReg(ref, pp.p, x)
  /\ ret' = "void"
  /\ UNCHANGED <<h64, added>>

\* whether the dense branch of Estimate indexes a table outside its rows
EstimatePanics(h) == h.p - 4 >= Len(threshold)

Estimate ==
  /\ Live
  /\ pp.made
  /\ IF pp.sparse
       THEN /\ pp' = merge(pp)
            /\ ret' = "count"
       ELSE /\ pp' = pp
            /\ ret' = IF EstimatePanics(pp) THEN "panic" ELSE "count"
  /\ lastAdd' = NoAdd
  /\ UNCHANGED <<h64, added, ref, addedDense>>

Init ==
  /\ h64 = [h \in H64 |-> NoHLL64]
  /\ added = [h \in H64 |-> {}]
  /\ ret = "void"
  /\ pp = NoHLLPP
  /\ ref = NilReg
  /\ addedDense = {}
  /\ lastAdd = NoAdd

Next64 ==
  \/ \E h \in H64, precision \in Precisions64 : New64(h, precision)
  \/ \E h \in H64 : Clear64(h)
  \/ \E h \in H64, x \in Hashes64 : AddUint64(h, x)
  \/ \E h \in H64, x \in Hashes64 : SeenUint64(h, x)
  \/ \E h \in H64, other \in H64 : Merge(h, other)
  \/ \E h \in H64 : Count(h)

NextPP ==
  \/ \E precision \in PrecisionsPP : NewHyperLogLogPP(precision)
  \/ Clear
  \/ \E x \in HashesPP : Add(x)
  \/ Estimate

Next == Next64 \/ NextPP

Spec == Init /\ [][Next]_vars

(* ------------------------------- claims -------------------------------- *)

StrictlyIncreasing(list) ==
  \A n \in 1..(Len(list) - 1) : Less(list[n], list[n + 1])

Range(list) == {list[n] : n \in 1..Len(list)}

InRange(reg, p) == \A i \in DOMAIN reg.nz : reg.nz[i] >= 0 /\ reg.nz[i] <= 64 - p + 1

GreaterOf(a, b) == IF a >= b THEN a ELSE b

\* C1: when the sparse estimator is promoted to dense, its register array equals
\* the array of a dense estimator of the same p that was given the same hashes.
C1_PromotionMatchesDense ==
  (lastAdd.called /\ lastAdd.promoted) => pp.reg = ref

\* C2: every hash added to a HyperLogLog64 since it was made or last cleared is
\* reported seen by SeenUint64, whatever was added or merged afterwards.
C2_NoFalseNegative ==
  \A h \in H64 : h64[h].made =>
     \A x \in added[h] : SeenUint64Result(h64[h], x)

\* a hash was added, its register was later raised above its rank, and SeenUint64
\* has just answered true
C2_Witness ==
  /\ ret = "true"
  /\ \E h \in H64 : h64[h].made /\ \E x \in added[h] :
        /\ RegAt(h64[h].reg, index64(h64[h].p, x)) > zeroBits64(h64[h].p, x)
        /\ SeenUint64Result(h64[h], x)

\* C3: on a dense estimator an Add never lowers a register, and adding again a
\* hash that was added since the last Clear leaves the register array unchanged.
C3_AddMonotoneIdempotent ==
  /\ [](/\ \A h \in H64 : h64[h].made =>
              \A x \in added[h] : AddUint64Reg(h64[h].reg, h64[h].p, x) = h64[h].reg
        /\ (pp.made /\ ~pp.sparse) =>
              \A x \in addedDense : AddReg(pp.reg, pp.p, x) = pp.reg)
  /\ [][/\ \A h \in H64, x \in Hashes64 : AddUint64(h, x) =>
              \A i \in DOMAIN h64[h].reg.nz :
                 RegAt(h64'[h].reg, i) >= RegAt(h64[h].reg, i)
        /\ \A x \in HashesPP : (Add(x) /\ ~pp.sparse) =>
              \A i \in DOMAIN pp.reg.nz : RegAt(pp'.reg, i) >= RegAt(pp.reg, i)]_vars

\* a hash of lower rank was added to a register that a hash of higher rank raised
C3_Witness ==
  \E h \in H64 : h64[h].made /\ \E x, y \in added[h] :
     /\ index64(h64[h].p, x) = index64(h64[h].p, y)
     /\ zeroBits64(h64[h].p, x) < zeroBits64(h64[h].p, y)

\* register arrays a third Merge operand of precision p ranges over
ThirdRegs(p) ==
  {h64[h].reg : h \in {g \in H64 : h64[g].made /\ h64[g].p = p}}
    \cup {AddUint64Reg(MakeReg(Pow2(p)), p, x) : x \in Hashes64}

\* C4: Merge of estimators of equal precision is commutative, associative and
\* idempotent on register arrays, leaves the receiver with the register-wise
\* maximum and leaves the argument unchanged.
C4_MergeLaws ==
  /\ [](\A g, h \in H64 : (h64[g].made /\ h64[h].made /\ h64[g].p = h64[h].p) =>
          LET a == h64[g].reg
              b == h64[h].reg
          IN  /\ MergeReg(a, b) = MergeReg(b, a)
              /\ MergeReg(b, MergeReg(a, b)) = MergeReg(a, b)
              /\ MergeReg(a, a) = a
              /\ \A c \in ThirdRegs(h64[g].p) :
                    MergeReg(MergeReg(a, b), c) = MergeReg(a, MergeReg(b, c)))
  /\ [][\A h, other \in H64 : (Merge(h, other) /\ h64[h].p = h64[other].p) =>
          /\ \A i \in (DOMAIN h64[h].reg.nz) \cup (DOMAIN h64[other].reg.nz)
                        \cup (DOMAIN h64'[h].reg.nz) :
                RegAt(h64'[h].reg, i)
                   = GreaterOf(RegAt(h64[h].reg, i), RegAt(h64[other].reg, i))
          /\ h64'[h].reg.len = h64[h].reg.len
          /\ other # h => h64'[other] = h64[other]]_vars

\* a Merge has just succeeded into a receiver that holds, in one register, a
\* larger value than the argument and, in another, the argument's value
C4_Witness ==
  /\ ret = "nil"
  /\ \E h, other \in H64 :
        /\ h # other /\ h64[h].made /\ h64[other].made /\ h64[h].p = h64[other].p
        /\ h64[h].reg = MergeReg(h64[h].reg, h64[other].reg)
        /\ \E i \in DOMAIN h64[other].reg.nz : RegAt(h64[h].reg, i) > h64[other].reg.nz[i]
        /\ \E i \in DOMAIN h64[other].reg.nz : RegAt(h64[h].reg, i) = h64[other].reg.nz[i]
        /\ added[h] # {} /\ added[other] # {} /\ added[h] # added[other]

\* C5: Merge of estimators of different precision returns an error and changes
\* neither estimator; Merge returns an error in no other case.
C5_MergeMismatch ==
  [][\A h, other \in H64 : Merge(h, other) =>
        /\ (h64[h].p # h64[other].p) => (ret' = "error" /\ h64' = h64)
        /\ (ret' = "error") => (h64[h].p # h64[other].p)]_vars

\* a Merge of two non-empty estimators of different precision has just failed
C5_Witness ==
  /\ ret = "error"
  /\ \E h, other \in H64 :
        /\ h64[h].made /\ h64[other].made /\ h64[h].p # h64[other].p
        /\ h64[h].reg.nz # NoEntries /\ h64[other].reg.nz # NoEntries

C7_Total == ret # "panic"

\* C8: the sparse list is strictly increasing in every sparse state, and merge
\* makes of a strictly increasing list the strictly increasing list of exactly
\* the values of the old list and of tmp_set, leaving tmp_set empty.
C8_MergeSortedUnion ==
  (pp.made /\ pp.sparse) =>
     /\ StrictlyIncreasing(pp.sparse_list)
     /\ LET after == merge(pp)
        IN  /\ StrictlyIncreasing(after.sparse_list)
            /\ Range(after.sparse_list) = Range(pp.sparse_list) \cup pp.tmp_set
            /\ after.tmp_set = {}

\* C9: every register of a dense estimator of precision p holds a value in
\* 0 .. 64-p+1.
C9_RegisterRange ==
  /\ \A h \in H64 : h64[h].made => InRange(h64[h].reg, h64[h].p)
  /\ (pp.made /\ ~pp.sparse) => InRange(pp.reg, pp.p)

\* the Add of a hash whose low 39 bits are all zero has just promoted the
\* estimator, and its decoded rank is in a register
C9_Witness ==
  /\ lastAdd.called /\ lastAdd.promoted /\ ~pp.sparse
  /\ eb64(lastAdd.x, 64 - pPrime, 0) = {}
  /\ \E i \in DOMAIN pp.reg.nz :
        pp.reg.nz[i] = decodeHash(pp.p, encodeHash(pp.p, lastAdd.x))[2]

\* what Add does on a sparse estimator, with merge taken when count * perEntry > m
\* and promotion taken when, after the merge, listLen * perItem > m
SparseAddPath(perEntry, perItem) ==
  (lastAdd.called /\ lastAdd.sparse) =>
     /\ lastAdd.merged <=> lastAdd.cnt * perEntry > pp.m
     /\ lastAdd.promoted <=> (lastAdd.merged /\ lastAdd.listLen * perItem > pp.m)
     /\ lastAdd.promoted <=> ~pp.sparse
     /\ lastAdd.merged <=> pp.tmp_set = {}
     /\ ~lastAdd.merged =>
           /\ encodeHash(pp.p, lastAdd.x) \in pp.tmp_set
           /\ lastAdd.cnt = Cardinality(pp.tmp_set)
     /\ (lastAdd.merged /\ ~lastAdd.promoted) => lastAdd.listLen = Len(pp.sparse_list)

DenseUntilClear ==
  [][(pp.made /\ ~pp.sparse /\ ~Clear) => ~pp'.sparse]_vars

\* C10 as stated: merge exactly when |tmp_set| * 100 > m, promotion exactly when
\* after the merge the list holds more than m entries.
C10_Original == SparseAddPath(100, 1)

\* C10 as amended: merge exactly when |tmp_set| * 72 > m, promotion exactly when
\* after the merge len(sparse_list) * 6 > m; no promotion without a merge right
\* before it; a dense estimator stays dense until Clear.
C10_SparseAdd == ([]SparseAddPath(72, 6)) /\ DenseUntilClear

\* at p = 8 an Add has just merged a tmp_set of four encoded hashes (4 * 72 > 256)
\* without promoting
C10_Witness ==
  /\ lastAdd.called /\ lastAdd.sparse /\ lastAdd.merged /\ ~lastAdd.promoted
  /\ lastAdd.cnt = 4 /\ pp.p = 8 /\ pp.sparse /\ pp.sparse_list # <<>>

====
